---- MODULE Spec2Model ----
(***************************************************************************)
(* DocCraft AI: the streaming chat-to-document-update pipeline.            *)
(*                                                                         *)
(* The client is EditorPage (handleSendMessage, handleContentChange, the   *)
(* debounce timer) with ChatPanel's handleSubmit in front of it; the       *)
(* server is the POST /api/documents/:id/chat handler with the document    *)
(* and chat-message store behind it.  Text is a sequence of one-character  *)
(* strings, the event stream is the sequence of characters the server has  *)
(* written and the client has not yet read.                                *)
(***************************************************************************)
EXTENDS Integers, Sequences, FiniteSets, TLC

(***************************************************************************)
(* Bounds of the model.                                                    *)
(***************************************************************************)
\* invocations of handleSendMessage in one run
MaxTurns == 2
\* what the surroundings put into one run, all told: completion chunks with
\* content, manual edits, keep-alive lines, reads that end inside a line
MaxInputs == 2
\* where such a read ends, counted from the start of the waiting bytes
CutAt == 9
MaxTime == 2500

Turns == 1..MaxTurns
\* the two requests that the server is looked at with
Pair == {1, 2}

(***************************************************************************)
(* Text.                                                                   *)
(***************************************************************************)
NL == "\n"
Whitespace == {" ", NL}

StartMarker ==
  <<"<","<","<","D","O","C","U","M","E","N","T","_","U","P","D","A","T","E",">",">",">">>
EndMarker ==
  <<"<","<","<","E","N","D","_","U","P","D","A","T","E",">",">",">">>


Min(S) == CHOOSE x \in S : \A y \in S : x <= y

\* s.startsWith(p, i-1): p occurs in s at (1-based) position i
OccursAt(p, s, i) ==
  /\ i >= 1
  /\ i + Len(p) - 1 <= Len(s)
  /\ \A k \in 1..Len(p) : s[i + k - 1] = p[k]

\* s.indexOf(p, from-1) + 1: the first position >= from where p occurs, 0 if none
IndexOf(p, s, from) ==
  IF \A i \in from..(Len(s) - Len(p) + 1) : ~OccursAt(p, s, i) THEN 0
  ELSE CHOOSE i \in from..(Len(s) - Len(p) + 1) :
         /\ OccursAt(p, s, i)
         /\ \A j \in from..(i - 1) : ~OccursAt(p, s, j)

\* the characters of s from its first to its last that is not whitespace
TrimFrom(s, first) ==
  SubSeq(s, first,
         CHOOSE i \in first..Len(s) :
           /\ s[i] \notin Whitespace
           /\ \A j \in (i + 1)..Len(s) : s[j] \in Whitespace)

\* String.prototype.trim
Trim(s) ==
  IF \A i \in 1..Len(s) : s[i] \in Whitespace THEN <<>>
  ELSE TrimFrom(s, CHOOSE i \in 1..Len(s) :
                     /\ s[i] \notin Whitespace
                     /\ \A j \in 1..(i - 1) : s[j] \in Whitespace)

\* a || b for two strings
Or(a, b) == IF a # <<>> THEN a ELSE b

\* s.slice(n)
Slice(s, n) == SubSeq(s, n + 1, Len(s))

\* the result of String.prototype.match when the pattern does not match
NoMatch == [found |-> FALSE, group |-> <<>>]

\* a match that runs on to the last end marker of the text
DocumentUpdateMatchGreedy(text) ==
  IF IndexOf(StartMarker, text, 1) = 0
       \/ IndexOf(EndMarker, text, IndexOf(StartMarker, text, 1) + Len(StartMarker)) = 0
    THEN NoMatch
  ELSE [found |-> TRUE,
        group |-> SubSeq(text, IndexOf(StartMarker, text, 1) + Len(StartMarker),
                         (CHOOSE j \in 1..Len(text) :
                            /\ OccursAt(EndMarker, text, j)
                            /\ \A k \in (j + 1)..Len(text) :
                                 ~OccursAt(EndMarker, text, k)) - 1)]

\* a match that takes the end of the text for a missing end marker
DocumentUpdateMatchOpenEnded(text) ==
  IF IndexOf(StartMarker, text, 1) = 0 THEN NoMatch
  ELSE IF IndexOf(EndMarker, text, IndexOf(StartMarker, text, 1) + Len(StartMarker)) = 0
    THEN [found |-> TRUE,
          group |-> Slice(text, IndexOf(StartMarker, text, 1) + Len(StartMarker) - 1)]
  ELSE [found |-> TRUE,
        group |-> SubSeq(text, IndexOf(StartMarker, text, 1) + Len(StartMarker),
                         IndexOf(EndMarker, text,
                                 IndexOf(StartMarker, text, 1) + Len(StartMarker)) - 1)]

\* fullResponse.match(/<<<DOCUMENT_UPDATE>>>([\s\S]*?)<<<END_UPDATE>>>/):
\* the leftmost start marker that has an end marker after it, and the
\* shortest interior from there
DocumentUpdateMatch(text) ==
  LET i == IndexOf(StartMarker, text, 1)
      j == IF i = 0 THEN 0 ELSE IndexOf(EndMarker, text, i + Len(StartMarker))
  IN  IF j = 0 THEN NoMatch
      ELSE [found |-> TRUE,
            group |-> SubSeq(text, i + Len(StartMarker), j - 1)]

\* where the end marker of the first block of text starts, 0 without a block
BlockEnd(text) ==
  IF IndexOf(StartMarker, text, 1) = 0 THEN 0
  ELSE IndexOf(EndMarker, text, IndexOf(StartMarker, text, 1) + Len(StartMarker))

\* content.replace(/<<<DOCUMENT_UPDATE>>>[\s\S]*?<<<END_UPDATE>>>/g, ""):
\* every block is taken out, left to right, each search going on behind the
\* block before it
RECURSIVE ReplaceBlocks(_)
ReplaceBlocks(text) ==
  IF BlockEnd(text) = 0 THEN text
  ELSE SubSeq(text, 1, IndexOf(StartMarker, text, 1) - 1)
         \o ReplaceBlocks(Slice(text, BlockEnd(text) + Len(EndMarker) - 1))

\* a replace whose pattern takes the whitespace before a block with it
RECURSIVE ReplaceBlocksAndSpace(_)
ReplaceBlocksAndSpace(text) ==
  IF BlockEnd(text) = 0 THEN text
  ELSE Trim(SubSeq(text, 1, IndexOf(StartMarker, text, 1) - 1))
         \o ReplaceBlocksAndSpace(Slice(text, BlockEnd(text) + Len(EndMarker) - 1))

\* a cleaning that closes the gap a block leaves
CleanContentClosingGap(content) == Trim(ReplaceBlocksAndSpace(content))

\* cleanContent
CleanContent(content) == Trim(ReplaceBlocks(content))

(***************************************************************************)
(* The wire format: JSON.stringify on the server, JSON.parse on the        *)
(* client, "data: " lines ended by a blank line.                           *)
(***************************************************************************)
Quote == "\""
Backslash == "\\"

DataPrefix == <<"d","a","t","a",":"," ">>
KeyContent == <<"c","o","n","t","e","n","t">>
KeyDocumentUpdate == <<"d","o","c","u","m","e","n","t","U","p","d","a","t","e">>
KeyDone == <<"d","o","n","e">>
KeyError == <<"e","r","r","o","r">>
LitTrue == <<"t","r","u","e">>
\* the text of the server's error frame
FailedToProcess ==
  <<"F","a","i","l","e","d"," ","t","o"," ","p","r","o","c","e","s","s"," ","m","e","s","s","a","g","e">>

\* the escape JSON.stringify applies to one character of a string
JSONEscapeChar(c) ==
  IF c = NL THEN <<Backslash, "n">>
  ELSE IF c = Quote THEN <<Backslash, Quote>>
  ELSE IF c = Backslash THEN <<Backslash, Backslash>>
  ELSE <<c>>

RECURSIVE JSONEscape(_)
\* the escapes JSON.stringify applies inside a string, character by
\* character (worked out half by half)
JSONEscape(s) ==
  IF s = <<>> THEN <<>>
  ELSE IF Len(s) = 1 THEN JSONEscapeChar(s[1])
  ELSE JSONEscape(SubSeq(s, 1, Len(s) \div 2))
         \o JSONEscape(SubSeq(s, Len(s) \div 2 + 1, Len(s)))

\* JSON.stringify({key: text})
StringifyStr(key, text) ==
  <<"{", Quote>> \o key \o <<Quote, ":", Quote>> \o JSONEscape(text) \o <<Quote, "}">>

\* JSON.stringify({key: true})
StringifyTrue(key) ==
  <<"{", Quote>> \o key \o <<Quote, ":">> \o LitTrue \o <<"}">>

\* `data: ${json}\n\n`
EventLine(json) == DataPrefix \o json \o <<NL, NL>>

\* the backslashes that end s[1..m], counted
BackslashRun(s, m) ==
  IF \A j \in 1..m : s[j] = Backslash THEN m
  ELSE m - (CHOOSE j \in 1..m :
              s[j] # Backslash /\ \A k \in (j + 1)..m : s[k] = Backslash)

\* a place near the middle of s that does not part a backslash from the
\* character it escapes
EscapeBoundary(s) ==
  IF BackslashRun(s, Len(s) \div 2) % 2 = 1
    THEN Len(s) \div 2 - 1 ELSE Len(s) \div 2

JoinUnescaped(a, b) == [ok |-> a.ok /\ b.ok, str |-> a.str \o b.str]

RECURSIVE JSONUnescape(_)
\* the inside of a JSON string literal, decoded; ok is FALSE where JSON.parse
\* throws a SyntaxError (a bare quote, a raw line break, a bad escape); a
\* long literal is decoded half by half
JSONUnescape(s) ==
  IF s = <<>> THEN [ok |-> TRUE, str |-> <<>>]
  ELSE IF Len(s) > 3
    THEN JoinUnescaped(JSONUnescape(SubSeq(s, 1, EscapeBoundary(s))),
                       JSONUnescape(SubSeq(s, EscapeBoundary(s) + 1, Len(s))))
  ELSE IF Head(s) = Backslash
    THEN IF Len(s) < 2 \/ s[2] \notin {"n", Quote, Backslash}
           THEN [ok |-> FALSE, str |-> <<>>]
           ELSE LET r == JSONUnescape(SubSeq(s, 3, Len(s)))
                IN  [ok |-> r.ok,
                     str |-> <<IF s[2] = "n" THEN NL ELSE s[2]>> \o r.str]
  ELSE IF Head(s) \in {Quote, NL}
    THEN [ok |-> FALSE, str |-> <<>>]
  ELSE LET r == JSONUnescape(Tail(s))
       IN  [ok |-> r.ok, str |-> <<Head(s)>> \o r.str]

\* what JSON.parse throws on
SyntaxError == [ok |-> FALSE, key |-> <<>>, isStr |-> FALSE, str |-> <<>>]

\* the value v of the member key: true, or a string literal
JSONValue(key, v) ==
  IF v = LitTrue THEN [ok |-> TRUE, key |-> key, isStr |-> FALSE, str |-> <<>>]
  ELSE IF Len(v) < 2 \/ v[1] # Quote \/ v[Len(v)] # Quote THEN SyntaxError
  ELSE [ok |-> JSONUnescape(SubSeq(v, 2, Len(v) - 1)).ok,
        key |-> key,
        isStr |-> TRUE,
        str |-> JSONUnescape(SubSeq(v, 2, Len(v) - 1)).str]

\* the object p whose key's closing quote is at k
JSONMember(p, k) ==
  IF k = 0 \/ ~OccursAt(<<":">>, p, k + 1) THEN SyntaxError
  ELSE JSONValue(SubSeq(p, 3, k - 1), SubSeq(p, k + 2, Len(p) - 1))

\* the result r of parsing, as JSON.parse gives it
JSONResult(r) == IF r.ok THEN r ELSE SyntaxError

\* JSON.parse of a payload, for the one-member objects of the protocol:
\* {"key":"string"} and {"key":true}.  Anything else is a SyntaxError.
JSONParse(p) ==
  IF ~OccursAt(<<"{", Quote>>, p, 1) \/ Len(p) < 2 \/ p[Len(p)] # "}"
    THEN SyntaxError
  ELSE JSONResult(JSONMember(p, IndexOf(<<Quote>>, p, 3)))

\* data[key] used as a condition: a non-empty string or true
Truthy(data, key) ==
  data.ok /\ data.key = key /\ (data.isStr => data.str # <<>>)

RECURSIVE SplitAt(_, _, _)
\* the pieces of s from position from on, cut at the positions P
SplitAt(s, from, P) ==
  IF P = {} THEN <<SubSeq(s, from, Len(s))>>
  ELSE <<SubSeq(s, from, Min(P) - 1)>> \o SplitAt(s, Min(P) + 1, P \ {Min(P)})

\* buffer.split("\n")
Split(s) == SplitAt(s, 1, {i \in 1..Len(s) : s[i] = NL})

\* x is an element of the sequence s
Has(s, x) == \E i \in 1..Len(s) : s[i] = x

\* a carry-over that is dropped at the end of every pass
LastDropped(s) == <<>>

Last(s) == s[Len(s)]
Front(s) == SubSeq(s, 1, Len(s) - 1)

(***************************************************************************)
(* State.                                                                  *)
(***************************************************************************)
VARIABLES
  \* EditorPage (React state and refs)
  documentId,          \* 0 is null
  title,
  content,             \* the working copy
  format,
  messages,            \* the local chat history
  streamingContent,
  isAiLoading,
  isConnected,
  toasts,              \* the notifications raised, in order
  contentDebounceRef,  \* the pending content timer, if any
  titleDebounceRef,    \* the pending title timer, if any
  now,                 \* the time, in ms
  eventLog,            \* the edits and the calls of mutate so far, in order
  mounted,             \* the page is mounted
  aiSettings,          \* the settings of the AI provider
  turn,                \* per invocation of handleSendMessage: where it is
  \* requests on their way to the server
  patches,             \* PATCH /api/documents/:id requests not yet handled
  \* server
  documents,           \* the documents table, id = index
  updatedOrder,        \* document ids, most recently updated first
  chatMessages,        \* the chat_messages table, in creation order
  req,                 \* per chat request: where the handler is, its stream
  \* the count that bounds a run
  inputsUsed

timers == <<contentDebounceRef, titleDebounceRef, now, eventLog, mounted>>
clientVars == <<documentId, title, content, format, messages, streamingContent,
                isAiLoading, isConnected, toasts, timers, aiSettings, turn>>
serverVars == <<documents, updatedOrder, chatMessages, req>>
vars == <<clientVars, patches, serverVars, inputsUsed>>

\* DEFAULT_HTML, abridged
DefaultHtml == <<"<","h","1",">">>
\* the content of the seeded "Welcome to DocCraft AI" document, abridged
SeedContent == <<"<","p",">">>
UntitledDocument == <<"U">>
SeedTitle == <<"W">>

\* what the user may type into the chat box
Inputs == {<<"g","o"," ">>, <<" ">>}
\* what the user may type into the editor
EditValues == {<<"m">>}
\* what the user may type into the editor and into the title box while the
\* saves are timed, and the times that may go by between two events
TypedContents == {<<"m">>, <<"n">>}
TypedTitles == {<<"T">>, <<"V">>}
Delays == {400, 700}
\* the text chunks the upstream completion may yield ("" is a chunk whose
\* delta has no content)
ChunkPool ==
  {<<>>, <<NL,"H","i">>, StartMarker, EndMarker,
   StartMarker \o <<NL,"H","i",NL>> \o EndMarker}
\* the text chunks of the completions whose streams are read in pieces
PieceTexts == {<<NL,"H","i">>, StartMarker \o <<NL,"H","i",NL>> \o EndMarker}
\* a response with text around its block, and one with a block inside a
\* start marker
SureUpdateDone ==
  <<"S","u","r","e","!",NL>> \o StartMarker
    \o <<NL,"<","p",">","H","i","<","/","p",">",NL>> \o EndMarker
    \o <<NL,"D","o","n","e",".">>
BlockInMarker ==
  SubSeq(StartMarker, 1, 12) \o StartMarker \o <<"a">> \o EndMarker
    \o SubSeq(StartMarker, 13, Len(StartMarker)) \o <<"b">> \o EndMarker
\* the text chunks of the completions whose display is looked at
DisplayTexts == {<<NL,"H","i">>, StartMarker, EndMarker, SureUpdateDone, BlockInMarker}
\* a line a proxy may put on the stream that is not JSON
KeepAlive == <<"p","i","n","g">>

NoTimer == [pending |-> FALSE, id |-> 0, value |-> <<>>, due |-> 0]

\* what the for loop works on, before there is anything
NoLoopState ==
  [fullResponse |-> <<>>, streamingContent |-> <<>>, content |-> <<>>,
   messages |-> <<>>, toasts |-> <<>>, thrown |-> FALSE, seen |-> <<>>,
   docId |-> 0]

\* an invocation of handleSendMessage: its locals, and notes of what has
\* happened to it (edited, editedLater, seen; received is all the reader has
\* yielded, start is what the for loop had to work on before the first read)
\* what loadSettings returns when nothing is stored, the model name abridged
DefaultSettings == [apiKey |-> <<>>, baseUrl |-> <<>>, model |-> <<"g","4">>]
\* what the user may save in the settings dialog
SettingsPool ==
  {[apiKey |-> <<"k","7">>, baseUrl |-> <<"u","7">>, model |-> <<"q","7">>],
   [apiKey |-> <<"k","7">>, baseUrl |-> <<>>, model |-> <<>>]}
\* process.env.AI_INTEGRATIONS_OPENAI_API_KEY and _BASE_URL, and "gpt-4o"
EnvSettings == [apiKey |-> <<"e","8">>, baseUrl |-> <<"b","8">>, model |-> <<"g","4">>]
\* no call of openai.chat.completions.create yet
NoUpstream == [apiKey |-> <<>>, baseUrl |-> <<>>, model |-> <<>>]

FreshTurn ==
  [pc |-> "unused", msg |-> <<>>, docId |-> 0, snapTitle |-> <<>>,
   settings |-> DefaultSettings, snapContent |-> <<>>, buffer |-> <<>>, fullResponse |-> <<>>,
   edited |-> FALSE, editedLater |-> FALSE, seen |-> <<>>,
   received |-> <<>>, start |-> NoLoopState]

FreshReq ==
  [pc |-> "none", docId |-> 0, content |-> <<>>, history |-> <<>>,
   settings |-> NoUpstream, upstream |-> NoUpstream,
   documentContent |-> <<>>, savedAt |-> 0, upstreamMessages |-> <<>>,
   fullResponse |-> <<>>, headersSent |-> FALSE, status |-> 0,
   out |-> <<>>, ended |-> FALSE, log |-> <<>>]

Init ==
  /\ documentId = 0
  /\ title = UntitledDocument
  /\ content = DefaultHtml
  /\ format = "html"
  /\ messages = <<>>
  /\ streamingContent = <<>>
  /\ isAiLoading = FALSE
  /\ isConnected = TRUE
  /\ toasts = <<>>
  /\ contentDebounceRef = NoTimer
  /\ titleDebounceRef = NoTimer
  /\ now = 0
  /\ eventLog = <<>>
  /\ mounted = TRUE
  /\ aiSettings = DefaultSettings
  /\ turn = [t \in Turns |-> FreshTurn]
  /\ patches = <<>>
  /\ documents = <<[title |-> SeedTitle, content |-> SeedContent, format |-> "html"]>>
  /\ updatedOrder = <<1>>
  /\ chatMessages = <<>>
  /\ req = [t \in Turns |-> FreshReq]
  /\ inputsUsed = 0

(***************************************************************************)
(* Client: EditorPage and ChatPanel.                                       *)
(***************************************************************************)
\* the lowest invocation slot not yet used
NextTurn == Min({t \in Turns : turn[t].pc = "unused"})

\* useEffect: with no document open, open documents[0] of GET /api/documents
LoadDocuments ==
  /\ mounted
  /\ documentId = 0
  /\ Len(updatedOrder) > 0
  /\ LET id == updatedOrder[1]
     IN  /\ documentId' = id
         /\ title' = documents[id].title
         /\ content' = documents[id].content
         /\ format' = documents[id].format
  /\ UNCHANGED <<messages, streamingContent, isAiLoading, isConnected, toasts,
                 timers, aiSettings, turn, patches, serverVars, inputsUsed>>

\* handleSaveSettings(newSettings)
HandleSaveSettings(newSettings) ==
  /\ mounted
  /\ inputsUsed < MaxInputs
  /\ inputsUsed' = inputsUsed + 1
  /\ aiSettings' = newSettings
  /\ toasts' = Append(toasts, "Settings saved")
  /\ UNCHANGED <<documentId, title, content, format, messages, streamingContent,
                 isAiLoading, isConnected, timers, turn, patches, serverVars>>

\* handleSendMessage from the user message to the fetch call, for the
\* invocation t whose record so far is tr and whose document is id
BeginChat(t, tr, id) ==
  /\ messages' = Append(messages, [role |-> "user", content |-> tr.msg,
                                   documentId |-> id])
  /\ isAiLoading' = TRUE
  /\ streamingContent' = <<>>
  /\ isConnected' = TRUE
  /\ turn' = [turn EXCEPT ![t] = [tr EXCEPT !.pc = "fetching", !.docId = id]]
  /\ req' = [req EXCEPT ![t] = [FreshReq EXCEPT !.pc = "received", !.docId = id,
                                                !.content = tr.msg,
                                                !.documentContent = tr.snapContent,
                                                !.settings = tr.settings]]

\* handleSubmit, and handleSendMessage up to its first await
Submit(input) ==
  /\ Trim(input) # <<>>
  /\ ~isAiLoading
  /\ \E t \in Turns :
       /\ turn[t].pc = "unused"
       /\ t = NextTurn
       /\ LET tr == [turn[t] EXCEPT !.msg = Trim(input), !.snapTitle = title,
                                    !.snapContent = content,
                                    !.settings = aiSettings]
          IN  IF documentId = 0
                THEN /\ turn' = [turn EXCEPT ![t] = [tr EXCEPT !.pc = "creating"]]
                     /\ UNCHANGED <<messages, isAiLoading, streamingContent,
                                    isConnected, req>>
                ELSE BeginChat(t, tr, documentId)
  /\ UNCHANGED <<documentId, title, content, format, toasts, timers, aiSettings,
                 patches, documents, updatedOrder, chatMessages, inputsUsed>>

\* createDocumentMutation resolved: onSuccess, then handleSendMessage goes on
ClientCreated(t) ==
  /\ turn[t].pc = "created"
  /\ documentId' = turn[t].docId
  /\ BeginChat(t, turn[t], turn[t].docId)
  /\ UNCHANGED <<title, content, format, toasts, timers, aiSettings, patches,
                 documents, updatedOrder, chatMessages, inputsUsed>>

\* a rejected creation after which the loading flag is set all the same
ClientCreateFailedLoading(t) ==
  /\ turn[t].pc \in {"creating", "created"}
  /\ turn' = [turn EXCEPT ![t].pc = "rejected"]
  /\ isAiLoading' = TRUE
  /\ UNCHANGED <<documentId, title, content, format, messages, streamingContent,
                 isConnected, toasts, timers, aiSettings, patches,
                 serverVars, inputsUsed>>

\* createDocumentMutation rejected (the request failed or was answered 400):
\* the rejection leaves handleSendMessage
ClientCreateFailed(t) ==
  /\ turn[t].pc \in {"creating", "created"}
  /\ turn' = [turn EXCEPT ![t].pc = "rejected"]
  /\ UNCHANGED <<documentId, title, content, format, messages, streamingContent,
                 isAiLoading, isConnected, toasts, timers, aiSettings, patches,
                 serverVars, inputsUsed>>

\* a catch block that leaves the live text as it is
CatchKeepingStream(t, msgs, cont, tsts) ==
  /\ messages' = msgs
  /\ content' = cont
  /\ toasts' = Append(tsts, "Message failed")
  /\ isConnected' = FALSE
  /\ streamingContent' = streamingContent
  /\ isAiLoading' = FALSE

\* the catch and finally blocks of handleSendMessage, entered with the
\* messages, content and toasts the try block left
Catch(t, msgs, cont, tsts) ==
  /\ messages' = msgs
  /\ content' = cont
  /\ toasts' = Append(tsts, "Message failed")
  /\ isConnected' = FALSE
  /\ streamingContent' = <<>>
  /\ isAiLoading' = FALSE

\* what the for loop of invocation t works on
LoopState(t) ==
  [fullResponse |-> turn[t].fullResponse, streamingContent |-> streamingContent,
   content |-> content, messages |-> messages, toasts |-> toasts,
   thrown |-> FALSE, seen |-> turn[t].seen, docId |-> turn[t].docId]

\* fetch resolved: the response's status line and headers have arrived
ClientResponse(t) ==
  /\ turn[t].pc = "fetching"
  /\ req[t].headersSent \/ req[t].status >= 400
  /\ IF req[t].status >= 400
       THEN /\ Catch(t, messages, content, toasts)
            /\ turn' = [turn EXCEPT ![t].pc = "failed"]
       ELSE /\ turn' = [turn EXCEPT ![t].pc = "reading",
                                      ![t].start = LoopState(t)]
            /\ UNCHANGED <<messages, content, toasts, isConnected,
                           streamingContent, isAiLoading>>
  /\ UNCHANGED <<documentId, title, format, timers, aiSettings, patches,
                 serverVars, inputsUsed>>

\* a content frame that takes the place of the text so far
OnContentLatest(st, data) ==
  IF Truthy(data, KeyContent)
    THEN [st EXCEPT !.fullResponse = data.str,
                    !.streamingContent = data.str]
    ELSE st

\* if (data.content)
OnContent(st, data) ==
  IF Truthy(data, KeyContent)
    THEN [st EXCEPT !.fullResponse = @ \o data.str,
                    !.streamingContent = st.fullResponse \o data.str]
    ELSE st

\* if (data.documentUpdate)
OnDocumentUpdate(st, data) ==
  IF Truthy(data, KeyDocumentUpdate)
    THEN [st EXCEPT !.content = data.str,
                    !.toasts = Append(@, "Document updated")]
    ELSE st

\* a done frame handled with the trimmed text
OnDoneTrimmed(st, data) ==
  IF Truthy(data, KeyDone)
    THEN [st EXCEPT !.messages = Append(@, [role |-> "assistant",
                                            content |-> Trim(st.fullResponse),
                                            documentId |-> st.docId]),
                    !.streamingContent = <<>>]
    ELSE st

\* a done frame after which the history is the assistant message alone
OnDoneReplacing(st, data) ==
  IF Truthy(data, KeyDone)
    THEN [st EXCEPT !.messages = <<[role |-> "assistant",
                                   content |-> st.fullResponse,
                                   documentId |-> st.docId]>>,
                    !.streamingContent = <<>>]
    ELSE st

\* if (data.done)
OnDone(st, data) ==
  IF Truthy(data, KeyDone)
    THEN [st EXCEPT !.messages = Append(@, [role |-> "assistant",
                                            content |-> st.fullResponse,
                                            documentId |-> st.docId]),
                    !.streamingContent = <<>>]
    ELSE st

\* an error frame that is passed over
OnErrorIgnored(st, data) == st

\* if (data.error) throw
OnError(st, data) ==
  IF Truthy(data, KeyError) THEN [st EXCEPT !.thrown = TRUE] ELSE st

\* a try block whose catch throws a SyntaxError on
HandleDataRethrowing(st, data) ==
  IF ~data.ok THEN [st EXCEPT !.seen = Append(@, <<"?">>), !.thrown = TRUE]
  ELSE OnError(OnDone(OnDocumentUpdate(OnContent(
         [st EXCEPT !.seen = Append(@, data.key)], data), data), data), data)

\* the try block for a parsed payload; a SyntaxError is caught and the loop
\* goes on.  seen records the payloads the loop has come to.
HandleData(st, data) ==
  IF ~data.ok THEN [st EXCEPT !.seen = Append(@, <<"?">>)]
  ELSE OnError(OnDone(OnDocumentUpdate(OnContent(
         [st EXCEPT !.seen = Append(@, data.key)], data), data), data), data)

\* const jsonStr = line.slice(6).trim(); if (!jsonStr) continue
HandlePayload(st, jsonStr) ==
  IF jsonStr = <<>> THEN st ELSE HandleData(st, JSONParse(jsonStr))

\* the body of the for loop for one line, on the state st the loop has built;
\* once an error is thrown the remaining lines are not looked at
HandleLine(st, line) ==
  IF st.thrown \/ ~OccursAt(DataPrefix, line, 1) THEN st
  ELSE HandlePayload(st, Trim(Slice(line, 6)))

RECURSIVE HandleLines(_, _)
\* for (const line of lines)
HandleLines(st, lines) ==
  IF lines = <<>> THEN st
  ELSE HandleLines(HandleLine(st, Head(lines)), Tail(lines))

\* how much a read may yield: all the bytes that are waiting, or their
\* first CutAt
ReadSizes(t) ==
  {Len(req[t].out)} \cup {n \in {CutAt} : n < Len(req[t].out) /\ inputsUsed < MaxInputs}

\* one pass of the while loop over the next n characters of the stream
LoopPass(t, n) ==
  /\ LET parts == Split(turn[t].buffer \o SubSeq(req[t].out, 1, n))
         st == HandleLines(LoopState(t), Front(parts))
     IN  /\ req' = [req EXCEPT ![t].out = Slice(@, n)]
         /\ IF st.thrown
              THEN /\ Catch(t, st.messages, st.content, st.toasts)
                   /\ turn' = [turn EXCEPT ![t].pc = "failed",
                                           ![t].buffer = Last(parts),
                                           ![t].fullResponse = st.fullResponse,
                                           ![t].seen = st.seen,
                                           ![t].received = @ \o SubSeq(req[t].out, 1, n)]
              ELSE /\ messages' = st.messages
                   /\ content' = st.content
                   /\ toasts' = st.toasts
                   /\ streamingContent' = st.streamingContent
                   /\ turn' = [turn EXCEPT ![t].buffer = Last(parts),
                                           ![t].fullResponse = st.fullResponse,
                                           ![t].seen = st.seen,
                                           ![t].received = @ \o SubSeq(req[t].out, 1, n)]
                   /\ UNCHANGED <<isConnected, isAiLoading>>
  /\ UNCHANGED <<documentId, title, format, timers, aiSettings, patches,
                 documents, updatedOrder, chatMessages>>

\* reader.read() yielded the next n characters: one pass of the while loop
ClientRead(t, n) ==
  /\ turn[t].pc = "reading"
  /\ n >= 1
  /\ n \in ReadSizes(t)
  /\ inputsUsed' = IF n < Len(req[t].out) THEN inputsUsed + 1 ELSE inputsUsed
  /\ LoopPass(t, n)

\* the sizes of the pieces a finished stream may come in: one character, CutAt
\* characters, or all that is left
PieceSizes(t) == {n \in {1, CutAt, Len(req[t].out)} : n >= 1 /\ n <= Len(req[t].out)}

\* reader.read() yielded the next n characters of a stream the server has
\* finished writing
ClientReadPiece(t, n) ==
  /\ turn[t].pc = "reading"
  /\ req[t].ended
  /\ n \in PieceSizes(t)
  /\ LoopPass(t, n)
  /\ UNCHANGED inputsUsed

\* the connection closes with part of a finished stream not delivered
TransportEnds(t) ==
  /\ turn[t].pc = "reading"
  /\ req[t].ended
  /\ req[t].out # <<>>
  /\ req' = [req EXCEPT ![t].out = <<>>]
  /\ UNCHANGED <<clientVars, patches, documents, updatedOrder, chatMessages,
                 inputsUsed>>

\* an end of input at which the carry-over is handled as one more line
ClientReadEndSalvaging(t) ==
  /\ turn[t].pc = "reading"
  /\ req[t].out = <<>>
  /\ req[t].ended
  /\ isAiLoading' = FALSE
  /\ messages' = HandleLine(LoopState(t), turn[t].buffer).messages
  /\ content' = HandleLine(LoopState(t), turn[t].buffer).content
  /\ streamingContent' = HandleLine(LoopState(t), turn[t].buffer).streamingContent
  /\ toasts' = HandleLine(LoopState(t), turn[t].buffer).toasts
  /\ turn' = [turn EXCEPT
               ![t].pc = "done",
               ![t].seen = HandleLine(LoopState(t), turn[t].buffer).seen,
               ![t].fullResponse = HandleLine(LoopState(t), turn[t].buffer).fullResponse]
  /\ UNCHANGED <<documentId, title, format, isConnected, timers, aiSettings,
                 patches, serverVars, inputsUsed>>

\* an end of the stream with no finally block
ClientReadEndStillLoading(t) ==
  /\ turn[t].pc = "reading"
  /\ req[t].out = <<>>
  /\ req[t].ended
  /\ turn' = [turn EXCEPT ![t].pc = "done"]
  /\ UNCHANGED <<documentId, title, content, format, messages, streamingContent,
                 isAiLoading, isConnected, toasts, timers, aiSettings, patches,
                 serverVars, inputsUsed>>

\* reader.read() yielded done: break, then the finally block
ClientReadEnd(t) ==
  /\ turn[t].pc = "reading"
  /\ req[t].out = <<>>
  /\ req[t].ended
  /\ isAiLoading' = FALSE
  /\ turn' = [turn EXCEPT ![t].pc = "done"]
  /\ UNCHANGED <<documentId, title, content, format, messages, streamingContent,
                 isConnected, toasts, timers, aiSettings, patches, serverVars,
                 inputsUsed>>

\* fetch or reader.read() rejected: the network failed
ClientTransportFail(t) ==
  /\ turn[t].pc \in {"fetching", "reading"}
  /\ Catch(t, messages, content, toasts)
  /\ turn' = [turn EXCEPT ![t].pc = "failed"]
  /\ UNCHANGED <<documentId, title, format, timers, aiSettings, patches,
                 serverVars, inputsUsed>>

\* the delays of setTimeout in handleContentChange and handleTitleChange
ContentWindow == 1000
TitleWindow == 500

\* setTimeout(callback, window) for a save of value to the open document;
\* without an open document the ref keeps the timer that was cleared
Debounced(value, window) ==
  IF documentId # 0
    THEN [pending |-> TRUE, id |-> documentId, value |-> value, due |-> now + window]
    ELSE NoTimer

\* an entry of eventLog
Event(ev, key, value, id) ==
  [ev |-> ev, key |-> key, value |-> value, at |-> now, id |-> id]

\* a content handler that leaves a pending timer alone
HandleContentChangeThrottled(v) ==
  /\ mounted
  /\ inputsUsed < MaxInputs
  /\ inputsUsed' = inputsUsed + 1
  /\ content' = v
  /\ contentDebounceRef' =
       IF contentDebounceRef.pending THEN contentDebounceRef
       ELSE Debounced(v, ContentWindow)
  /\ eventLog' = Append(eventLog, Event("edit", "content", v, documentId))
  /\ UNCHANGED <<mounted, aiSettings, documentId, title, format, messages, streamingContent,
                 isAiLoading, isConnected, toasts, titleDebounceRef, now, turn,
                 patches, serverVars>>

\* handleContentChange(v); edited notes, for a turn that is under way and has
\* not yet come to a documentUpdate frame, that the user has edited, and
\* editedLater that the user has edited after that frame
HandleContentChange(v) ==
  /\ mounted
  /\ inputsUsed < MaxInputs
  /\ inputsUsed' = inputsUsed + 1
  /\ content' = v
  /\ contentDebounceRef' = Debounced(v, ContentWindow)
  /\ eventLog' = Append(eventLog, Event("edit", "content", v, documentId))
  /\ turn' = [t \in Turns |->
                IF Has(turn[t].seen, KeyDocumentUpdate)
                  THEN [turn[t] EXCEPT !.editedLater = TRUE]
                ELSE IF turn[t].pc \in {"fetching", "reading"}
                  THEN [turn[t] EXCEPT !.edited = TRUE]
                ELSE turn[t]]
  /\ UNCHANGED <<mounted, aiSettings, documentId, title, format, messages, streamingContent,
                 isAiLoading, isConnected, toasts, titleDebounceRef, now,
                 patches, serverVars>>

\* a title handler that clears the timer of the content as well
HandleTitleChangeOneTimer(v) ==
  /\ mounted
  /\ inputsUsed < MaxInputs
  /\ inputsUsed' = inputsUsed + 1
  /\ title' = v
  /\ titleDebounceRef' = Debounced(v, TitleWindow)
  /\ contentDebounceRef' = NoTimer
  /\ eventLog' = Append(eventLog, Event("edit", "title", v, documentId))
  /\ UNCHANGED <<mounted, aiSettings, documentId, content, format, messages, streamingContent,
                 isAiLoading, isConnected, toasts, now, turn, patches, serverVars>>

\* handleTitleChange(v)
HandleTitleChange(v) ==
  /\ mounted
  /\ inputsUsed < MaxInputs
  /\ inputsUsed' = inputsUsed + 1
  /\ title' = v
  /\ titleDebounceRef' = Debounced(v, TitleWindow)
  /\ eventLog' = Append(eventLog, Event("edit", "title", v, documentId))
  /\ UNCHANGED <<mounted, aiSettings, documentId, content, format, messages, streamingContent,
                 isAiLoading, isConnected, toasts, contentDebounceRef, now, turn,
                 patches, serverVars>>

\* the timer other does not expire before the timer mine
NotBefore(other, mine) == other.pending => other.due >= mine.due

\* the time comes to the expiry of the content timer, and its callback
\* runs: updateDocumentMutation.mutate
ContentTimerFires ==
  /\ contentDebounceRef.pending
  /\ NotBefore(titleDebounceRef, contentDebounceRef)
  /\ now' = contentDebounceRef.due
  /\ contentDebounceRef' = NoTimer
  /\ patches' = Append(patches, [id |-> contentDebounceRef.id, key |-> "content",
                                 value |-> contentDebounceRef.value])
  /\ eventLog' = Append(eventLog,
                        [ev |-> "save", key |-> "content",
                         value |-> contentDebounceRef.value,
                         at |-> contentDebounceRef.due, id |-> contentDebounceRef.id])
  /\ UNCHANGED <<mounted, aiSettings, documentId, title, content, format, messages, streamingContent,
                 isAiLoading, isConnected, toasts, titleDebounceRef, turn,
                 serverVars, inputsUsed>>

\* the same for the title timer
TitleTimerFires ==
  /\ titleDebounceRef.pending
  /\ NotBefore(contentDebounceRef, titleDebounceRef)
  /\ now' = titleDebounceRef.due
  /\ titleDebounceRef' = NoTimer
  /\ patches' = Append(patches, [id |-> titleDebounceRef.id, key |-> "title",
                                 value |-> titleDebounceRef.value])
  /\ eventLog' = Append(eventLog,
                        [ev |-> "save", key |-> "title",
                         value |-> titleDebounceRef.value,
                         at |-> titleDebounceRef.due, id |-> titleDebounceRef.id])
  /\ UNCHANGED <<mounted, aiSettings, documentId, title, content, format, messages, streamingContent,
                 isAiLoading, isConnected, toasts, contentDebounceRef, turn,
                 serverVars, inputsUsed>>

\* d ms go by in which no timer expires
Tick(d) ==
  /\ now + d <= MaxTime
  /\ contentDebounceRef.pending => now + d <= contentDebounceRef.due
  /\ titleDebounceRef.pending => now + d <= titleDebounceRef.due
  /\ now' = now + d
  /\ UNCHANGED <<mounted, aiSettings, documentId, title, content, format, messages, streamingContent,
                 isAiLoading, isConnected, toasts, contentDebounceRef,
                 titleDebounceRef, eventLog, turn, patches, serverVars, inputsUsed>>

\* a cleanup that clears the content timer only
UnmountContentOnly ==
  /\ mounted
  /\ mounted' = FALSE
  /\ contentDebounceRef' = NoTimer
  /\ eventLog' = Append(eventLog, Event("unmount", "", <<>>, documentId))
  /\ UNCHANGED <<aiSettings, documentId, title, content, format, messages, streamingContent,
                 isAiLoading, isConnected, toasts, titleDebounceRef, now, turn,
                 patches, serverVars, inputsUsed>>

\* the page unmounts: the cleanups of the two effects clear the two timers
Unmount ==
  /\ mounted
  /\ mounted' = FALSE
  /\ contentDebounceRef' = NoTimer
  /\ titleDebounceRef' = NoTimer
  /\ eventLog' = Append(eventLog, Event("unmount", "", <<>>, documentId))
  /\ UNCHANGED <<aiSettings, documentId, title, content, format, messages, streamingContent,
                 isAiLoading, isConnected, toasts, now, turn, patches,
                 serverVars, inputsUsed>>

(***************************************************************************)
(* Server: the store and the route handlers.                               *)
(***************************************************************************)
\* chatHistory = existingMessages.slice(-10)
HistoryLimit == 10

\* the effect of a write on ORDER BY updatedAt DESC
Touch(id) == <<id>> \o SelectSeq(updatedOrder, LAMBDA x : x # id)

\* storage.updateDocument(id, {content}): no row, no change
UpdateDocument(id, newContent) ==
  IF id \in 1..Len(documents)
    THEN /\ documents' = [documents EXCEPT ![id].content = newContent]
         /\ updatedOrder' = Touch(id)
    ELSE UNCHANGED <<documents, updatedOrder>>

\* storage.updateDocument(id, {title})
UpdateDocumentTitle(id, newTitle) ==
  IF id \in 1..Len(documents)
    THEN /\ documents' = [documents EXCEPT ![id].title = newTitle]
         /\ updatedOrder' = Touch(id)
    ELSE UNCHANGED <<documents, updatedOrder>>

\* storage.getChatMessages(id), as the {role, content} pairs of the history
GetChatMessages(id) ==
  LET rows == SelectSeq(chatMessages, LAMBDA m : m.documentId = id)
  IN  [i \in 1..Len(rows) |-> [role |-> rows[i].role, content |-> rows[i].content]]

\* s.slice(-n)
LastN(s, n) == IF Len(s) <= n THEN s ELSE SubSeq(s, Len(s) - n + 1, Len(s))

\* res.write(`data: ${json}\n\n`), logged as the event ev
Write(r, json, ev) ==
  [r EXCEPT !.out = @ \o EventLine(json), !.headersSent = TRUE,
            !.log = Append(@, ev)]

\* POST /api/documents: the document of turn t's create request is stored
ServerCreateDocument(t) ==
  /\ turn[t].pc = "creating"
  /\ documents' = Append(documents, [title |-> turn[t].snapTitle,
                                     content |-> turn[t].snapContent,
                                     format |-> format])
  /\ updatedOrder' = <<Len(documents) + 1>> \o updatedOrder
  /\ turn' = [turn EXCEPT ![t].pc = "created", ![t].docId = Len(documents) + 1]
  /\ UNCHANGED <<documentId, title, content, format, messages, streamingContent,
                 isAiLoading, isConnected, toasts, timers, aiSettings, patches,
                 chatMessages, req, inputsUsed>>

\* PATCH /api/documents/:id for the i-th request on its way
ServerPatch(i) ==
  /\ i \in 1..Len(patches)
  /\ IF patches[i].key = "content"
       THEN UpdateDocument(patches[i].id, patches[i].value)
       ELSE UpdateDocumentTitle(patches[i].id, patches[i].value)
  /\ patches' = SubSeq(patches, 1, i - 1) \o SubSeq(patches, i + 1, Len(patches))
  /\ UNCHANGED <<clientVars, chatMessages, req, inputsUsed>>

\* POST /api/documents/:id/chat, up to the first await
ServerReceive(t) ==
  /\ req[t].pc = "received"
  /\ req' = [req EXCEPT ![t] =
               IF req[t].content = <<>>
                 THEN [@ EXCEPT !.pc = "ended", !.status = 400, !.ended = TRUE]
                 ELSE [@ EXCEPT !.pc = "saveUser"]]
  /\ UNCHANGED <<clientVars, patches, documents, updatedOrder, chatMessages,
                 inputsUsed>>

\* a handler that stores the key with the text of the user message
ServerUserSavedWithKey(t) ==
  /\ req[t].pc = "saveUser"
  /\ chatMessages' = Append(chatMessages, [documentId |-> req[t].docId,
                                           role |-> "user",
                                           content |-> req[t].content
                                                         \o req[t].settings.apiKey])
  /\ req' = [req EXCEPT ![t].pc = "readHistory",
                        ![t].savedAt = Len(chatMessages) + 1,
                        ![t].log = Append(@, "userSaved")]
  /\ UNCHANGED <<clientVars, patches, documents, updatedOrder, inputsUsed>>

\* createChatMessage({role: "user"}) resolved; getChatMessages is called
ServerUserSaved(t) ==
  /\ req[t].pc = "saveUser"
  /\ chatMessages' = Append(chatMessages, [documentId |-> req[t].docId,
                                           role |-> "user",
                                           content |-> req[t].content])
  /\ req' = [req EXCEPT ![t].pc = "readHistory",
                        ![t].savedAt = Len(chatMessages) + 1,
                        ![t].log = Append(@, "userSaved")]
  /\ UNCHANGED <<clientVars, patches, documents, updatedOrder, inputsUsed>>

\* a history that is the first messages of the document
ServerHistoryReadOldest(t) ==
  /\ req[t].pc = "readHistory"
  /\ req' = [req EXCEPT ![t].pc = "openUpstream",
                        ![t].history = SubSeq(GetChatMessages(req[t].docId), 1, 1)]
  /\ UNCHANGED <<clientVars, patches, documents, updatedOrder, chatMessages,
                 inputsUsed>>

\* getChatMessages resolved; the headers are set and the completion is asked for
ServerHistoryRead(t) ==
  /\ req[t].pc = "readHistory"
  /\ req' = [req EXCEPT ![t].pc = "openUpstream",
                        ![t].history = LastN(GetChatMessages(req[t].docId),
                                             HistoryLimit)]
  /\ UNCHANGED <<clientVars, patches, documents, updatedOrder, chatMessages,
                 inputsUsed>>

\* systemPrompt, abridged to its first word and the content of the document
SystemPrompt(r) == <<"Y","o","u",":">> \o r.documentContent

\* openai.chat.completions.create resolved with a stream
ServerUpstreamOpened(t) ==
  /\ req[t].pc = "openUpstream"
  /\ req' = [req EXCEPT ![t].pc = "streaming",
                        ![t].upstreamMessages =
                          <<[role |-> "system", content |-> SystemPrompt(req[t])]>>
                            \o req[t].history,
                        ![t].upstream = [k \in {"apiKey", "baseUrl", "model"} |->
                                           Or(req[t].settings[k], EnvSettings[k])]]
  /\ UNCHANGED <<clientVars, patches, documents, updatedOrder, chatMessages,
                 inputsUsed>>

\* the stream yielded a chunk whose delta content is text
ServerChunk(t, text) ==
  /\ req[t].pc = "streaming"
  /\ inputsUsed < MaxInputs
  /\ inputsUsed' = IF text # <<>> THEN inputsUsed + 1 ELSE inputsUsed
  /\ req' = [req EXCEPT ![t] =
               IF text # <<>>
                 THEN [Write(@, StringifyStr(KeyContent, text), "delta")
                         EXCEPT !.fullResponse = @ \o text]
                 ELSE @]
  /\ UNCHANGED <<clientVars, patches, documents, updatedOrder, chatMessages>>

\* the stream ended: the match, the documentUpdate frame, and the call of
\* updateDocument or of createChatMessage
ServerDrained(t) ==
  /\ req[t].pc = "streaming"
  /\ LET m == DocumentUpdateMatch(req[t].fullResponse)
     IN  req' = [req EXCEPT ![t] =
                   IF m.found
                     THEN [Write(@, StringifyStr(KeyDocumentUpdate, Trim(m.group)),
                                 "docFrame")
                             EXCEPT !.pc = "updateDoc"]
                     ELSE [@ EXCEPT !.pc = "saveAssistant"]]
  /\ UNCHANGED <<clientVars, patches, documents, updatedOrder, chatMessages,
                 inputsUsed>>

\* an update of the documents with no WHERE clause
ServerDocUpdatedEverywhere(t) ==
  /\ req[t].pc = "updateDoc"
  /\ documents' = [d \in 1..Len(documents) |->
                     [documents[d] EXCEPT
                        !.content = Trim(DocumentUpdateMatch(req[t].fullResponse).group)]]
  /\ updatedOrder' = Touch(req[t].docId)
  /\ req' = [req EXCEPT ![t].pc = "saveAssistant",
                        ![t].log = Append(@, "docSaved")]
  /\ UNCHANGED <<clientVars, patches, chatMessages, inputsUsed>>

\* updateDocument resolved; createChatMessage is called
ServerDocUpdated(t) ==
  /\ req[t].pc = "updateDoc"
  /\ UpdateDocument(req[t].docId,
                    Trim(DocumentUpdateMatch(req[t].fullResponse).group))
  /\ req' = [req EXCEPT ![t].pc = "saveAssistant",
                        ![t].log = Append(@, "docSaved")]
  /\ UNCHANGED <<clientVars, patches, chatMessages, inputsUsed>>

\* an assistant message persisted trimmed, and only after the done frame
ServerAssistantSavedTrimmed(t) ==
  /\ req[t].pc = "saveAssistant"
  /\ chatMessages' = Append(chatMessages, [documentId |-> req[t].docId,
                                           role |-> "assistant",
                                           content |-> Trim(req[t].fullResponse)])
  /\ req' = [req EXCEPT ![t] =
               [Write(@, StringifyTrue(KeyDone), "doneFrame")
                  EXCEPT !.pc = "ended", !.ended = TRUE,
                         !.log = Append(@, "assistantSaved")]]
  /\ UNCHANGED <<clientVars, patches, documents, updatedOrder, inputsUsed>>

\* createChatMessage({role: "assistant"}) resolved; the done frame; res.end()
ServerAssistantSaved(t) ==
  /\ req[t].pc = "saveAssistant"
  /\ chatMessages' = Append(chatMessages, [documentId |-> req[t].docId,
                                           role |-> "assistant",
                                           content |-> req[t].fullResponse])
  /\ req' = [req EXCEPT ![t] =
               [Write([@ EXCEPT !.log = Append(@, "assistantSaved")],
                      StringifyTrue(KeyDone), "doneFrame")
                  EXCEPT !.pc = "ended", !.ended = TRUE]]
  /\ UNCHANGED <<clientVars, patches, documents, updatedOrder, inputsUsed>>

\* a catch block that writes the error frame whatever has been sent
ServerErrorAlwaysFrame(t) ==
  /\ req[t].pc \in {"saveUser", "readHistory", "openUpstream", "streaming",
                    "updateDoc", "saveAssistant"}
  /\ req' = [req EXCEPT ![t] =
               [Write(@, StringifyStr(KeyError, FailedToProcess), "errorFrame")
                  EXCEPT !.pc = "ended", !.ended = TRUE]]
  /\ UNCHANGED <<clientVars, patches, documents, updatedOrder, chatMessages,
                 inputsUsed>>

\* an awaited call of the handler rejected: the catch block
ServerError(t) ==
  /\ req[t].pc \in {"saveUser", "readHistory", "openUpstream", "streaming",
                    "updateDoc", "saveAssistant"}
  /\ req' = [req EXCEPT ![t] =
               IF req[t].headersSent
                 THEN [Write(@, StringifyStr(KeyError, FailedToProcess), "errorFrame")
                         EXCEPT !.pc = "ended", !.ended = TRUE]
                 ELSE [@ EXCEPT !.pc = "ended", !.ended = TRUE, !.status = 500]]
  /\ UNCHANGED <<clientVars, patches, documents, updatedOrder, chatMessages,
                 inputsUsed>>

\* POST /api/documents from another page with no document open
OtherPageCreates ==
  /\ Len(documents) <= Cardinality(Pair)
  /\ documents' = Append(documents, [title |-> UntitledDocument,
                                     content |-> DefaultHtml, format |-> "html"])
  /\ updatedOrder' = <<Len(documents) + 1>> \o updatedOrder
  /\ UNCHANGED <<clientVars, patches, chatMessages, req, inputsUsed>>

\* POST /api/documents/:id/chat from another page that has document id open
OtherPageChats(t, id, input) ==
  /\ turn[t].pc = "unused"
  /\ req[t].pc = "none"
  /\ Trim(input) # <<>>
  /\ id \in 1..Len(documents)
  /\ req' = [req EXCEPT ![t] = [FreshReq EXCEPT !.pc = "received", !.docId = id,
                                                !.content = Trim(input),
                                                !.documentContent = documents[id].content,
                                                !.settings = DefaultSettings]]
  /\ UNCHANGED <<clientVars, patches, documents, updatedOrder, chatMessages,
                 inputsUsed>>

\* a proxy puts a keep-alive line on an open stream, between two events
KeepAliveLine(t) ==
  /\ req[t].headersSent
  /\ ~req[t].ended
  /\ inputsUsed < MaxInputs
  /\ inputsUsed' = inputsUsed + 1
  /\ req' = [req EXCEPT ![t].out = @ \o EventLine(KeepAlive)]
  /\ UNCHANGED <<clientVars, patches, documents, updatedOrder, chatMessages>>

(***************************************************************************)
(* What the chat panel shows.                                              *)
(***************************************************************************)
\* displayContent of ChatMessageItem
DisplayContent(message) ==
  IF message.role = "user" THEN message.content ELSE CleanContent(message.content)

\* the texts of the message list
ShownMessages == {DisplayContent(messages[i]) : i \in 1..Len(messages)}

\* the text of the streaming bubble, when there is one
ShownStreaming ==
  IF streamingContent # <<>> THEN {CleanContent(streamingContent)} ELSE {}

(***************************************************************************)
(* The specifications.                                                     *)
(***************************************************************************)
\* what the client does in a turn
ClientTurn(t) ==
  \/ ClientCreated(t)
  \/ ClientCreateFailed(t)
  \/ ClientResponse(t)
  \/ \E n \in ReadSizes(t) : ClientRead(t, n)
  \/ ClientReadEnd(t)
  \/ ClientTransportFail(t)

\* what the server does for a turn, but for the chunks of the completion
ServerTurn(t) ==
  \/ ServerCreateDocument(t)
  \/ ServerReceive(t)
  \/ ServerUserSaved(t)
  \/ ServerHistoryRead(t)
  \/ ServerUpstreamOpened(t)
  \/ ServerDrained(t)
  \/ ServerAssistantSaved(t)
  \/ ServerError(t)

\* what the server does with a completion that has content
ServerContent(t) ==
  \/ \E text \in ChunkPool : ServerChunk(t, text)
  \/ ServerDocUpdated(t)

\* manual edits of the content and their debounced saves
Editing ==
  \/ \E v \in EditValues : HandleContentChange(v)
  \/ ContentTimerFires
  \/ \E i \in 1..Len(patches) : ServerPatch(i)

\* the first turn of a session, end to end
Next ==
  \/ LoadDocuments
  \/ \E input \in Inputs : turn[1].pc = "unused" /\ Submit(input)
  \/ ClientTurn(1)
  \/ ServerTurn(1)
  \/ ServerContent(1)

Spec == Init /\ [][Next]_vars

\* the first turn when every awaited call that can settle does settle in the
\* end: each step of the server and of the client is taken if it stays
\* possible. For the steps that work on the text of the response, weak
\* fairness is written out, []<>(not enabled) \/ []<>(step), with the guard
\* of the step for its being enabled.
SpecLive ==
  /\ Init
  /\ [][Next]_vars
  /\ WF_vars(ServerCreateDocument(1))
  /\ WF_vars(ClientCreated(1))
  /\ WF_vars(ServerReceive(1))
  /\ WF_vars(ServerUserSaved(1))
  /\ WF_vars(ServerHistoryRead(1))
  /\ WF_vars(ServerUpstreamOpened(1))
  /\ WF_vars(ClientResponse(1))
  /\ WF_vars(ClientReadEnd(1))
  /\ []<>(req[1].pc # "streaming") \/ []<><<ServerDrained(1)>>_vars
  /\ []<>(req[1].pc # "updateDoc") \/ []<><<ServerDocUpdated(1)>>_vars
  /\ []<>(req[1].pc # "saveAssistant") \/ []<><<ServerAssistantSaved(1)>>_vars
  /\ []<>(turn[1].pc # "reading" \/ req[1].out = <<>>)
       \/ []<><<\E n \in ReadSizes(1) : ClientRead(1, n)>>_vars

\* the first turn behind a proxy that sends keep-alive lines
NextProxy == Next \/ KeepAliveLine(1)

SpecProxy == Init /\ [][NextProxy]_vars

\* the first turn with manual edits going on
NextEdit == Next \/ Editing

SpecEdit == Init /\ [][NextEdit]_vars

\* the first turn, its stream read in pieces once the server has written it
NextChunks ==
  \/ \E input \in Inputs : turn[1].pc = "unused" /\ Submit(input)
  \/ ClientCreated(1)
  \/ ClientResponse(1)
  \/ \E n \in PieceSizes(1) : ClientReadPiece(1, n)
  \/ TransportEnds(1)
  \/ ClientReadEnd(1)
  \/ ServerTurn(1)
  \/ \E text \in PieceTexts : ServerChunk(1, text)
  \/ ServerDocUpdated(1)

SpecChunks == Init /\ [][NextChunks]_vars

\* the first turn with completions whose display is looked at
NextDisplay ==
  \/ \E input \in Inputs : turn[1].pc = "unused" /\ Submit(input)
  \/ ClientCreated(1)
  \/ ClientResponse(1)
  \/ \E n \in ReadSizes(1) : ClientRead(1, n)
  \/ ClientReadEnd(1)
  \/ ServerTurn(1)
  \/ \E text \in DisplayTexts : ServerChunk(1, text)
  \/ ServerDocUpdated(1)

SpecDisplay == Init /\ [][NextDisplay]_vars

\* editing the document and its title as time goes by
NextDebounce ==
  \/ LoadDocuments
  \/ \E v \in TypedContents : HandleContentChange(v)
  \/ \E v \in TypedTitles : HandleTitleChange(v)
  \/ ContentTimerFires
  \/ TitleTimerFires
  \/ \E d \in Delays : Tick(d)
  \/ \E i \in 1..Len(patches) : ServerPatch(i)

SpecDebounce == Init /\ [][NextDebounce]_vars

\* editing as time goes by, up to and after the unmounting of the page
NextUnmount ==
  \/ LoadDocuments
  \/ \E v \in TypedContents : HandleContentChange(v)
  \/ \E v \in TypedTitles : HandleTitleChange(v)
  \/ ContentTimerFires
  \/ TitleTimerFires
  \/ \E d \in Delays : Tick(d)
  \/ Unmount

SpecUnmount == Init /\ [][NextUnmount]_vars

\* the first turn with the settings of the provider saved at any time
NextSettings ==
  \/ \E newSettings \in SettingsPool : HandleSaveSettings(newSettings)
  \/ \E input \in Inputs : turn[1].pc = "unused" /\ Submit(input)
  \/ ClientTurn(1)
  \/ ServerTurn(1)
  \/ \E text \in PieceTexts : ServerChunk(1, text)
  \/ ServerDocUpdated(1)

SpecSettings == Init /\ [][NextSettings]_vars

\* ten messages of an earlier conversation about the seeded document
EarlierMessages ==
  [i \in 1..HistoryLimit |->
     [documentId |-> 1,
      role |-> IF i % 2 = 1 THEN "user" ELSE "assistant",
      content |-> <<"m", <<"0","1","2","3","4","5","6","7","8","9">>[i]>>]]

\* the server after seeding, with or without an earlier conversation
InitServer ==
  /\ documentId = 0
  /\ title = UntitledDocument
  /\ content = DefaultHtml
  /\ format = "html"
  /\ messages = <<>>
  /\ streamingContent = <<>>
  /\ isAiLoading = FALSE
  /\ isConnected = TRUE
  /\ toasts = <<>>
  /\ contentDebounceRef = NoTimer
  /\ titleDebounceRef = NoTimer
  /\ now = 0
  /\ eventLog = <<>>
  /\ mounted = TRUE
  /\ aiSettings = DefaultSettings
  /\ turn = [t \in Turns |-> FreshTurn]
  /\ patches = <<>>
  /\ documents = <<[title |-> SeedTitle, content |-> SeedContent, format |-> "html"]>>
  /\ updatedOrder = <<1>>
  /\ chatMessages \in {<<>>, EarlierMessages}
  /\ req = [t \in Turns |-> FreshReq]
  /\ inputsUsed = 0

\* the server with two chat requests of other pages under way
ServerRequest(t) ==
  \/ ServerReceive(t)
  \/ ServerUserSaved(t)
  \/ ServerHistoryRead(t)
  \/ ServerUpstreamOpened(t)
  \/ ServerDrained(t)
  \/ ServerAssistantSaved(t)
  \/ ServerError(t)
  \/ ServerDocUpdated(t)

NextServer ==
  \/ OtherPageCreates
  \/ \E t \in Pair : \E id \in 1..Len(documents) : \E input \in Inputs :
       OtherPageChats(t, id, input)
  \/ \E t \in Pair : ServerRequest(t)
  \/ \E t \in Pair : \E text \in PieceTexts : ServerChunk(t, text)

SpecServer == InitServer /\ [][NextServer]_vars

\* a session of several turns whose completions have no content
NextSession ==
  \/ LoadDocuments
  \/ \E input \in Inputs : Submit(input)
  \/ \E t \in Turns : ClientTurn(t)
  \/ \E t \in Turns : ServerTurn(t)

SpecSession == Init /\ [][NextSession]_vars

(***************************************************************************)
(* Properties.                                                             *)
(***************************************************************************)
\* the turns that have begun and not ended
InFlight == {t \in Turns : turn[t].pc \in {"creating", "created", "fetching", "reading"}}

\* the places of the event ev in the log of a request
At(log, ev) == {i \in 1..Len(log) : log[i] = ev}

\* every ev of the log comes before every ev2 of the log
Precedes(log, ev, ev2) == \A i \in At(log, ev) : \A j \in At(log, ev2) : i < j

\* text has a start marker with an end marker somewhere after it
HasBlock(text) ==
  \E i \in 1..Len(text) : \E j \in 1..Len(text) :
    /\ OccursAt(StartMarker, text, i)
    /\ OccursAt(EndMarker, text, j)
    /\ j >= i + Len(StartMarker)

\* text has a start marker
HasStart(text) == \E i \in 1..Len(text) : OccursAt(StartMarker, text, i)

\* C1: at most one chat turn of the session is under way at any time, the
\* time the document is being created for it included: no two creations or
\* chat requests overlap.
C1_OneTurnInFlight == Cardinality(InFlight) <= 1

\* C2: once the documentUpdate frame has been written to the stream, the
\* document store holds the extracted replacement.
C2_StoredBeforeFrame ==
  \A t \in Turns :
    Has(req[t].log, "docFrame") =>
      documents[req[t].docId].content
        = Trim(DocumentUpdateMatch(req[t].fullResponse).group)

\* C3: the user message is in the store before the first text-delta frame
\* is written; the assistant message is stored after the last delta and
\* before the done frame, and its content is the full response as it came,
\* markers and whitespace included.
C3_MessagesPersistedInOrder ==
  \A t \in Turns :
    /\ Has(req[t].log, "delta") =>
          /\ req[t].log[1] = "userSaved"
          /\ Has(chatMessages, [documentId |-> req[t].docId, role |-> "user",
                                content |-> req[t].content])
    /\ Precedes(req[t].log, "delta", "assistantSaved")
    /\ Has(req[t].log, "doneFrame") =>
          /\ Has(req[t].log, "assistantSaved")
          /\ Precedes(req[t].log, "assistantSaved", "doneFrame")
          /\ Has(chatMessages, [documentId |-> req[t].docId, role |-> "assistant",
                                content |-> req[t].fullResponse])

\* a request that streamed text around a replacement block and came to its
\* done frame
C3_Witness ==
  \E t \in Turns :
    /\ Has(req[t].log, "doneFrame")
    /\ Has(req[t].log, "delta")
    /\ HasBlock(req[t].fullResponse)
    /\ Trim(req[t].fullResponse) # req[t].fullResponse

AssistantMessages == {i \in 1..Len(messages) : messages[i].role = "assistant"}

\* the replacement a request takes from its full response
Replacement(t) == Trim(DocumentUpdateMatch(req[t].fullResponse).group)

\* C5: when the client has handled the done frame of a turn whose response
\* had a replacement block, and the user did not edit during the turn, the
\* stored content of the document equals the working copy, whatever the
\* replacement text, the empty text included.
C5_StoreEqualsWorkingCopy ==
  \A t \in Turns :
    (/\ Has(turn[t].seen, KeyDone)
     /\ HasBlock(req[t].fullResponse)
     /\ ~turn[t].edited /\ ~turn[t].editedLater)
      => documents[req[t].docId].content = content

\* C6: the user edits while a turn streams and the turn then brings a
\* replacement; once the turn is over, no timer is pending and no save is
\* under way, the working copy and the stored content are the replacement.
C6_ReplacementWins ==
  \A t \in Turns :
    (/\ turn[t].pc = "done"
     /\ turn[t].edited /\ ~turn[t].editedLater
     /\ Has(turn[t].seen, KeyDocumentUpdate)
     /\ Replacement(t) # <<>>
     /\ ~contentDebounceRef.pending
     /\ patches = <<>>)
      => /\ content = Replacement(t)
         /\ documents[req[t].docId].content = Replacement(t)

\* C7: a turn whose request or reader failed before a done frame was handled
\* leaves the connectivity flag false and the live text empty, its user
\* message in the local history, and no assistant message.
C7_TransportFailure ==
  \A t \in Turns :
    (turn[t].pc = "failed" /\ ~Has(turn[t].seen, KeyDone))
      => /\ ~isConnected
         /\ streamingContent = <<>>
         /\ Has(messages, [role |-> "user", content |-> turn[t].msg,
                           documentId |-> turn[t].docId])
         /\ AssistantMessages = {}

\* a reader that failed in mid-stream, after text had been shown
C7_Witness ==
  \E t \in Turns :
    /\ turn[t].pc = "failed"
    /\ turn[t].fullResponse # <<>>
    /\ ~Has(turn[t].seen, KeyDone)
    /\ ~Has(turn[t].seen, KeyError)

\* C8: an error frame ends the turn as a transport failure does: it is the
\* last payload the loop comes to, the connectivity flag is false, the live
\* text is empty, one failure notification is raised and no assistant message
\* is appended.
C8_ErrorFrame ==
  \A t \in Turns :
    Has(turn[t].seen, KeyError)
      => /\ turn[t].pc = "failed"
         /\ Last(turn[t].seen) = KeyError
         /\ Cardinality(At(turn[t].seen, KeyError)) = 1
         /\ ~isConnected
         /\ ~isAiLoading
         /\ streamingContent = <<>>
         /\ Cardinality(At(toasts, "Message failed")) = 1
         /\ AssistantMessages = {}

\* an error frame handled after text deltas
C8_Witness ==
  \E t \in Turns :
    /\ Has(turn[t].seen, KeyContent)
    /\ Has(turn[t].seen, KeyError)

\* a data line whose payload JSON.parse rejects
Malformed(line) ==
  /\ OccursAt(DataPrefix, line, 1)
  /\ Trim(Slice(line, 6)) # <<>>
  /\ ~JSONParse(Trim(Slice(line, 6))).ok

WellFormed(line) == ~Malformed(line)

\* the whole lines a read of n characters gives the loop of invocation t
LinesRead(t, n) == Front(Split(turn[t].buffer \o SubSeq(req[t].out, 1, n)))

\* what the loop of invocation t would make of those lines were the
\* malformed ones not among them
SkippingMalformed(t, n) ==
  HandleLines(LoopState(t), SelectSeq(LinesRead(t, n), WellFormed))

\* C9: a data line whose payload fails to parse is skipped with no change of
\* state and without ending the turn: a pass of the read loop leaves the
\* history, the working copy, the live text, the notifications, the
\* accumulated response and the turn as it would were the line absent, and
\* the connectivity flag stays true unless a frame other than that line ends
\* the turn.
C9_MalformedLineSkipped ==
  [][\A t \in Turns :
       (turn[t].pc = "reading" /\ Len(req'[t].out) < Len(req[t].out))
         => /\ messages' = SkippingMalformed(t, Len(req[t].out) - Len(req'[t].out)).messages
            /\ content' = SkippingMalformed(t, Len(req[t].out) - Len(req'[t].out)).content
            /\ turn'[t].fullResponse
                 = SkippingMalformed(t, Len(req[t].out) - Len(req'[t].out)).fullResponse
            /\ IF SkippingMalformed(t, Len(req[t].out) - Len(req'[t].out)).thrown
                 THEN /\ turn'[t].pc = "failed"
                      /\ ~isConnected'
                      /\ streamingContent' = <<>>
                      /\ toasts' = Append(SkippingMalformed(t, Len(req[t].out) - Len(req'[t].out)).toasts,
                                          "Message failed")
                 ELSE /\ turn'[t].pc = "reading"
                      /\ isConnected /\ isConnected'
                      /\ isAiLoading'
                      /\ streamingContent'
                           = SkippingMalformed(t, Len(req[t].out) - Len(req'[t].out)).streamingContent
                      /\ toasts' = SkippingMalformed(t, Len(req[t].out) - Len(req'[t].out)).toasts
    ]_vars

\* a turn that came to a text delta, then to a line that does not parse,
\* then to its done frame, and is still connected
C9_Witness ==
  \E t \in Turns :
    /\ \E i \in 1..Len(turn[t].seen) : \E j \in 1..Len(turn[t].seen) :
         \E k \in 1..Len(turn[t].seen) :
           /\ i < j /\ j < k
           /\ turn[t].seen[i] = KeyContent
           /\ turn[t].seen[j] = <<"?">>
           /\ turn[t].seen[k] = KeyDone
    /\ isConnected
    /\ Has(messages, [role |-> "assistant", content |-> req[t].fullResponse,
                      documentId |-> turn[t].docId])

\* the done frames the loops have come to, each with its turn
DoneFramesHandled ==
  UNION {{<<t, i>> : i \in At(turn[t].seen, KeyDone)} : t \in Turns}

\* C10: for each done frame handled there is one assistant message in the
\* local history, and none else; its content is all the text deltas of the
\* turn joined in the order they came, markers and whitespace included, and
\* the live text is empty.
C10_DoneAppendsRawResponse ==
  /\ Cardinality(AssistantMessages) = Cardinality(DoneFramesHandled)
  /\ \A t \in Turns :
       Has(turn[t].seen, KeyDone)
         => /\ Has(messages, [role |-> "assistant",
                              content |-> req[t].fullResponse,
                              documentId |-> turn[t].docId])
            /\ streamingContent = <<>>

\* a done frame handled after two deltas that bring a replacement block
C10_Witness ==
  \E t \in Turns :
    /\ Has(turn[t].seen, KeyDone)
    /\ Cardinality(At(turn[t].seen, KeyContent)) >= 2
    /\ HasBlock(req[t].fullResponse)

\* the user message of invocation t is in the local history
UserMessageShown(t) ==
  \E i \in 1..Len(messages) :
    messages[i].role = "user" /\ messages[i].content = turn[t].msg

\* C11: an invocation with no document open whose document creation fails
\* ends before the turn starts: no user message is appended, the loading
\* flag is not set, no chat request is issued.
C11_CreationFailureAborts ==
  \A t \in Turns :
    turn[t].pc \in {"creating", "created", "rejected"}
      => /\ ~UserMessageShown(t)
         /\ ~isAiLoading
         /\ req[t].pc = "none"

\* a creation that the server carried out and the client saw fail
C11_Witness ==
  \E t \in Turns : turn[t].pc = "rejected" /\ Len(documents) > 1

\* C12: every error in a turn, a failed document creation included, is
\* caught in handleSendMessage: the invocation never ends by a rejection, and
\* one that ended by an error has raised a failure notification.
C12_ErrorsCaught ==
  \A t \in Turns :
    /\ turn[t].pc # "rejected"
    /\ turn[t].pc = "failed" => Has(toasts, "Message failed")

\* invocation t began with no document open and had one created (document 1
\* is the seeded one)
CreatedDocument(t) == turn[t].docId > 1

\* C13: for an invocation with no document open exactly one document is
\* created, from the title and content at hand; the creation is over before
\* the user message is appended and before the chat request goes out, which
\* is for the new id; and if the response has a replacement block, the
\* working copy is the extracted replacement once the done frame is handled.
C13_CreateThenChat ==
  \A t \in Turns :
    CreatedDocument(t)
      => /\ Len(documents) = 2
         /\ documents[turn[t].docId].title = turn[t].snapTitle
         /\ UserMessageShown(t) => turn[t].pc \notin {"creating", "created"}
         /\ req[t].pc # "none"
              => /\ turn[t].pc \notin {"creating", "created"}
                 /\ req[t].docId = turn[t].docId
         /\ (Has(turn[t].seen, KeyDone) /\ HasBlock(req[t].fullResponse))
              => content = Replacement(t)

\* what the for loop makes of all that invocation t has received when it
\* comes as one chunk
WholeStream(t) == HandleLines(turn[t].start, Front(Split(turn[t].received)))

\* C14: however the stream is cut into chunks, the client is where one chunk
\* with all it has received would have brought it: the same payloads in the
\* same order, the same history, live text, working copy and notifications.
C14_ChunkBoundaryInvariance ==
  \A t \in Turns :
    (turn[t].pc \in {"reading", "done"} \/ Has(turn[t].seen, KeyError))
      => LET w == WholeStream(t)
         IN  /\ turn[t].seen = w.seen
             /\ turn[t].fullResponse = w.fullResponse
             /\ messages = w.messages
             /\ content = w.content
             /\ w.thrown <=> turn[t].pc = "failed"
             /\ ~w.thrown => /\ streamingContent = w.streamingContent
                             /\ toasts = w.toasts

\* a chunk has ended between a backslash and the character it escapes, after
\* a text delta was handled and with more of the stream to come
C14_Witness ==
  \E t \in Turns :
    /\ turn[t].pc = "reading"
    /\ Has(turn[t].seen, KeyContent)
    /\ turn[t].buffer # <<>>
    /\ Last(turn[t].buffer) = Backslash
    /\ req[t].out # <<>>

\* the text after the last line break of s
AfterLastNewline(s) ==
  IF ~Has(s, NL) THEN s
  ELSE Slice(s, CHOOSE i \in 1..Len(s) :
                  s[i] = NL /\ \A j \in (i + 1)..Len(s) : s[j] # NL)

\* the lines of s that are ended by a line break and carry a payload
PayloadLines(s) ==
  {i \in 1..Len(Front(Split(s))) :
     /\ OccursAt(DataPrefix, Split(s)[i], 1)
     /\ Trim(Slice(Split(s)[i], 6)) # <<>>}

\* C15: the text after the last line break is never handled as a frame: it
\* is kept as the carry-over for the next chunk, the payloads the loop has
\* come to are those of lines that were ended by a line break, and at the
\* end of input the carry-over is dropped and nothing changes, even when it
\* is a whole payload.
C15_CarryOverDiscarded ==
  [][\A t \in Turns :
       (turn[t].pc = "reading" /\ turn'[t] # turn[t])
         => /\ turn'[t].buffer = AfterLastNewline(turn'[t].received)
            /\ Len(turn'[t].seen) <= Cardinality(PayloadLines(turn'[t].received))
            /\ turn'[t].pc = "reading"
                 => Len(turn'[t].seen) = Cardinality(PayloadLines(turn'[t].received))
            /\ turn'[t].pc = "done"
                 => /\ turn'[t].seen = turn[t].seen
                    /\ turn'[t].fullResponse = turn[t].fullResponse
                    /\ messages' = messages
                    /\ content' = content
                    /\ streamingContent' = streamingContent
                    /\ toasts' = toasts
    ]_vars

\* the input ended with a whole done payload as carry-over, and no assistant
\* message was appended
C15_Witness ==
  \E t \in Turns :
    /\ turn[t].pc = "done"
    /\ OccursAt(DataPrefix, turn[t].buffer, 1)
    /\ Truthy(JSONParse(Trim(Slice(turn[t].buffer, 6))), KeyDone)
    /\ AssistantMessages = {}

\* the places of text where the marker mk occurs
MarkerPlaces(mk, text) == {i \in 1..Len(text) : OccursAt(mk, text, i)}

\* the text between the first start marker of text and the first end marker
\* that follows it
FirstInterior(text) ==
  SubSeq(text, Min(MarkerPlaces(StartMarker, text)) + Len(StartMarker),
         Min({j \in MarkerPlaces(EndMarker, text) :
                j >= Min(MarkerPlaces(StartMarker, text)) + Len(StartMarker)}) - 1)

\* r is s without the whitespace at its two ends
IsTrimOf(r, s) ==
  \E i \in 0..Len(s) : \E j \in i..Len(s) :
    /\ r = SubSeq(s, i + 1, j)
    /\ \A k \in 1..i : s[k] \in Whitespace
    /\ \A k \in (j + 1)..Len(s) : s[k] \in Whitespace
    /\ r # <<>> => r[1] \notin Whitespace /\ r[Len(r)] \notin Whitespace

\* the server has been through the extraction for request t
Extracted(t) ==
  \/ req[t].pc \in {"updateDoc", "saveAssistant"}
  \/ Has(req[t].log, "docFrame")
  \/ Has(req[t].log, "doneFrame")

\* C16: from a full response with no start marker, or with no end marker
\* after a start marker, nothing is extracted; from any other, one
\* replacement is extracted, sent and stored, and it is the text between the
\* first start marker and the first end marker after it, without the
\* whitespace at its ends, whatever markers come later.
C16_Extraction ==
  \A t \in Turns :
    /\ DocumentUpdateMatch(req[t].fullResponse).found <=> HasBlock(req[t].fullResponse)
    /\ Extracted(t) =>
         IF ~HasBlock(req[t].fullResponse)
           THEN /\ ~Has(req[t].log, "docFrame")
                /\ ~Has(req[t].log, "docSaved")
                /\ ~Has(turn[t].seen, KeyDocumentUpdate)
           ELSE /\ Cardinality(At(req[t].log, "docFrame")) = 1
                /\ IsTrimOf(Replacement(t), FirstInterior(req[t].fullResponse))
                /\ Has(req[t].log, "docSaved")
                     => documents[req[t].docId].content = Replacement(t)
                /\ Has(turn[t].seen, KeyDocumentUpdate)
                     => content = Replacement(t) \/ Replacement(t) = <<>>

\* a replacement stored from a response with two blocks
C16_Witness ==
  \E t \in Turns :
    /\ Has(req[t].log, "docSaved")
    /\ Cardinality(MarkerPlaces(StartMarker, req[t].fullResponse)) >= 2
    /\ Cardinality(MarkerPlaces(EndMarker, req[t].fullResponse)) >= 2

\* the texts the claims about the display name
SureDone == <<"S","u","r","e","!",NL,"D","o","n","e",".">>
SureBlankDone == <<"S","u","r","e","!",NL,NL,"D","o","n","e",".">>
ParagraphHi == <<"<","p",">","H","i","<","/","p",">">>

\* a turn whose response is the text around a block shows its finished
\* message as shown, and takes the paragraph as the replacement
ScenarioB(shown) ==
  \A t \in Turns :
    req[t].fullResponse = SureUpdateDone =>
      /\ \A i \in AssistantMessages :
           messages[i].content = SureUpdateDone
             => DisplayContent(messages[i]) = shown
      /\ Extracted(t) => Has(req[t].log, "docFrame") /\ Replacement(t) = ParagraphHi
      /\ Has(req[t].log, "docSaved")
           => documents[req[t].docId].content = ParagraphHi
      /\ Has(turn[t].seen, KeyDocumentUpdate) => content = ParagraphHi

\* C17: the response "Sure!", a block holding <p>Hi</p> between newlines,
\* "Done." is shown as "Sure!", ONE newline, "Done.", and its replacement is
\* <p>Hi</p>.
C17_ScenarioB == ScenarioB(SureDone)

\* C17, amended: the same response is shown as "Sure!", the TWO newlines
\* that stood around the block, "Done.", and its replacement is <p>Hi</p>.
C17_ScenarioBBlankLine == ScenarioB(SureBlankDone)

\* the finished message of that response in the list, its replacement in
\* the editor
C17_Witness ==
  /\ \E i \in AssistantMessages : messages[i].content = SureUpdateDone
  /\ content = ParagraphHi
  /\ Has(turn[1].seen, KeyDone)

\* the raw texts the panel cleans
CleanedTexts ==
  {messages[i].content : i \in AssistantMessages} \cup {streamingContent}

\* C18: cleaning a cleaned text changes nothing, whatever the text, those
\* where taking a block out joins the characters around it into a start
\* marker included.
C18_CleanIdempotent ==
  \A x \in CleanedTexts : CleanContent(CleanContent(x)) = CleanContent(x)

\* the text in front of the first start marker of text
BeforeBlock(text) == SubSeq(text, 1, IndexOf(StartMarker, text, 1) - 1)

\* C19: no text the panel shows has a part of a replacement block in it:
\* the finished assistant messages and the streaming text show no start
\* marker, and while a block is open (its start marker there, its end marker
\* not yet) the streaming text shows only what came before the block.
C19_NoBlockShown ==
  /\ \A i \in AssistantMessages : ~HasStart(DisplayContent(messages[i]))
  /\ \A x \in ShownStreaming :
       /\ ~HasStart(x)
       /\ HasStart(streamingContent) /\ ~HasBlock(streamingContent)
            => x = Trim(BeforeBlock(streamingContent))

\* the window of a field
Window(key) == IF key = "content" THEN ContentWindow ELSE TitleWindow

\* the edits of a field made with a document open, as places of eventLog
OpenEdits(key) ==
  {i \in 1..Len(eventLog) :
     eventLog[i].ev = "edit" /\ eventLog[i].key = key /\ eventLog[i].id # 0}

\* the edits of the field of edit i that came after it
LaterEdits(i) ==
  {n \in (i + 1)..Len(eventLog) :
     eventLog[n].ev = "edit" /\ eventLog[n].key = eventLog[i].key}

\* the calls of mutate for the field of edit i made while i was the last
\* edit of that field
SavesOf(i) ==
  {j \in (i + 1)..Len(eventLog) :
     /\ eventLog[j].ev = "save"
     /\ eventLog[j].key = eventLog[i].key
     /\ \A n \in LaterEdits(i) : n > j}

\* edit i of a field, made with a document open, is saved as the claim says
SavedOnce(i) ==
  /\ Cardinality(SavesOf(i)) <= 1
  /\ \A j \in SavesOf(i) :
       /\ eventLog[j].at = eventLog[i].at + Window(eventLog[i].key)
       /\ eventLog[j].value = eventLog[i].value
       /\ eventLog[j].id = eventLog[i].id
  /\ IF LaterEdits(i) = {}
       THEN now > eventLog[i].at + Window(eventLog[i].key) => SavesOf(i) # {}
       ELSE /\ eventLog[Min(LaterEdits(i))].at - eventLog[i].at < Window(eventLog[i].key)
                 => SavesOf(i) = {}
            /\ eventLog[Min(LaterEdits(i))].at - eventLog[i].at > Window(eventLog[i].key)
                 => SavesOf(i) # {}

\* C20: with a document open, the edits of the content (window 1000 ms) and
\* of the title (window 500 ms) are saved once per run: an edit followed by
\* another of its field less than the window later is not saved; an edit
\* with none of its field in the window after it is saved exactly once, one
\* window after it was made, with its value; and nothing else is saved.
C20_DebounceCoalescing ==
  /\ \A key \in {"content", "title"} : \A i \in OpenEdits(key) : SavedOnce(i)
  /\ \A j \in 1..Len(eventLog) :
       eventLog[j].ev = "save"
         => \E i \in OpenEdits(eventLog[j].key) : j \in SavesOf(i)

\* two edits of the content less than a window apart, with different values,
\* and the one call that saved the second
C20_Witness ==
  \E i \in OpenEdits("content") : \E n \in OpenEdits("content") :
    /\ i < n
    /\ eventLog[n].at - eventLog[i].at < ContentWindow
    /\ eventLog[n].at > eventLog[i].at
    /\ eventLog[n].value # eventLog[i].value
    /\ SavesOf(i) = {}
    /\ SavesOf(n) # {}

\* the places of eventLog where the page unmounted
Unmounts == {u \in 1..Len(eventLog) : eventLog[u].ev = "unmount"}

\* the edits of eventLog that were inside their windows when the page
\* unmounted: made with a document open, not saved, the window not over
CutShort ==
  {i \in OpenEdits("content") \cup OpenEdits("title") :
     \E u \in Unmounts :
       /\ i < u
       /\ eventLog[u].at < eventLog[i].at + Window(eventLog[i].key)
       /\ LaterEdits(i) = {}}

\* C21: once the page has unmounted no timer is pending and mutate is not
\* called again, however much time goes by: an edit that was inside its
\* window at the unmounting is never saved.
C21_UnmountCancels ==
  /\ ~mounted => ~contentDebounceRef.pending /\ ~titleDebounceRef.pending
  /\ \A u \in Unmounts : \A j \in (u + 1)..Len(eventLog) : eventLog[j].ev # "save"
  /\ \A i \in CutShort : SavesOf(i) = {}

\* a title edit cut short by the unmounting, and its window long over
C21_Witness ==
  \E i \in CutShort :
    /\ eventLog[i].key = "title"
    /\ now > eventLog[i].at + TitleWindow

\* this step is an edit of the field key
EditStep(key) ==
  /\ Len(eventLog') = Len(eventLog) + 1
  /\ eventLog'[Len(eventLog')].ev = "edit"
  /\ eventLog'[Len(eventLog')].key = key

\* this step is the server handling the i-th PATCH request under way
PatchStep(i) ==
  /\ Len(patches') = Len(patches) - 1
  /\ patches' = SubSeq(patches, 1, i - 1) \o SubSeq(patches, i + 1, Len(patches))

\* the field key is the same in every stored document before and after
StoredUnchanged(key) ==
  /\ Len(documents') = Len(documents)
  /\ \A d \in 1..Len(documents) :
       IF key = "content" THEN documents'[d].content = documents[d].content
       ELSE documents'[d].title = documents[d].title

\* the other of the two fields
Other(key) == IF key = "content" THEN "title" ELSE "content"

\* C22: the two timers do not interfere: an edit of the title leaves the
\* timer of the content as it was, pending or not and with its expiry, and an
\* edit of the content leaves the timer of the title as it was; and a save of
\* one of the two fields, when the server handles it, leaves the other field
\* of every stored document unchanged.
C22_TimersIndependent ==
  [][/\ EditStep("title") => contentDebounceRef' = contentDebounceRef
     /\ EditStep("content") => titleDebounceRef' = titleDebounceRef
     /\ \A i \in 1..Len(patches) :
          PatchStep(i) => StoredUnchanged(Other(patches[i].key))]_vars

\* a title edit made while the content timer was pending, the two saves
\* made at their own times, and both stored
C22_Witness ==
  \E i \in OpenEdits("content") : \E n \in OpenEdits("title") :
    /\ i < n
    /\ eventLog[n].at < eventLog[i].at + ContentWindow
    /\ \E j \in SavesOf(i) : eventLog[j].at = eventLog[i].at + ContentWindow
    /\ \E j \in SavesOf(n) : eventLog[j].at = eventLog[n].at + TitleWindow
    /\ patches = <<>>
    /\ documents[eventLog[i].id].content = eventLog[i].value
    /\ documents[eventLog[n].id].title = eventLog[n].value

\* this step is request t failing while the completion is generated: in the
\* call that opens the upstream stream, or in the loop over it
GenerationFails(t) ==
  /\ req[t].pc \in {"openUpstream", "streaming"}
  /\ req'[t].pc = "ended"

\* request t ends without a done frame and without an assistant message
NothingFinished(t) ==
  /\ ~Has(req'[t].log, "doneFrame")
  /\ ~Has(req'[t].log, "assistantSaved")
  /\ \A i \in 1..Len(chatMessages') : chatMessages'[i].role # "assistant"

\* C23: every failure of the server while the completion is generated puts
\* an error frame on the event stream, and the request ends with no done
\* frame and no assistant message.
C23_ErrorReachesClient ==
  [][\A t \in Turns :
       GenerationFails(t)
         => /\ req'[t].out = req[t].out \o EventLine(StringifyStr(KeyError, FailedToProcess))
            /\ NothingFinished(t)]_vars

\* C23, amended: a failure of the server while the completion is generated
\* puts an error frame on the event stream when a frame has been written
\* before it; when none has (the call that opens the upstream stream failed,
\* or the stream failed before its first text), the request is answered
\* with status 500 and no frame at all. Either way the request ends with no
\* done frame and no assistant message.
C23_ErrorFrameOrStatus ==
  [][\A t \in Turns :
       GenerationFails(t)
         => /\ IF req[t].headersSent
                 THEN /\ req'[t].out = req[t].out
                                        \o EventLine(StringifyStr(KeyError, FailedToProcess))
                      /\ req'[t].status = req[t].status
                 ELSE /\ req'[t].out = <<>>
                      /\ req'[t].status = 500
                      /\ ~req'[t].headersSent
            /\ NothingFinished(t)]_vars

\* a request that failed after its history was read and before its first
\* frame, and the client's turn failed by the status
C23_Witness ==
  \E t \in Turns :
    /\ req[t].status = 500
    /\ req[t].history # <<>>
    /\ Has(req[t].log, "userSaved")
    /\ turn[t].pc = "failed"

\* the settings that came with request t, and the ones its upstream call
\* was made with
SettingsOf(t) ==
  {req[t].settings[k] : k \in {"apiKey", "baseUrl", "model"}}
    \cup {req[t].upstream[k] : k \in {"apiKey", "baseUrl", "model"}}

\* the texts in the store
StoredTexts ==
  {chatMessages[i].content : i \in 1..Len(chatMessages)}
    \cup {documents[d].content : d \in 1..Len(documents)}
    \cup {documents[d].title : d \in 1..Len(documents)}

\* the chat messages request t has stored by now, from its message and the
\* text of the completion alone
MessagesWritten(t) ==
  (IF Has(req[t].log, "userSaved")
     THEN <<[documentId |-> req[t].docId, role |-> "user", content |-> turn[t].msg]>>
     ELSE <<>>)
  \o (IF Has(req[t].log, "assistantSaved")
        THEN <<[documentId |-> req[t].docId, role |-> "assistant",
                content |-> req[t].fullResponse]>>
        ELSE <<>>)

\* C24: the settings sent with a chat request (apiKey, baseUrl, model) are
\* in no record of the store: the chat messages are the user message and the
\* raw response and nothing else, the content of the document is what it
\* was or the replacement taken from the response, and no stored text has
\* one of the settings in it.
C24_SettingsNotStored ==
  /\ chatMessages = MessagesWritten(1)
  /\ \A d \in 1..Len(documents) :
       /\ documents[d].content \in {SeedContent, DefaultHtml, Replacement(1)}
       /\ documents[d].content = Replacement(1) /\ Replacement(1) \notin {SeedContent, DefaultHtml}
            => d = req[1].docId /\ Has(req[1].log, "docSaved") /\ HasBlock(req[1].fullResponse)
       /\ documents[d].title \in {SeedTitle, UntitledDocument}
  /\ \A x \in SettingsOf(1) : \A text \in StoredTexts :
       x # <<>> => IndexOf(x, text, 1) = 0

\* a request that came with a key, its upstream call made with that key, and
\* its two messages and its replacement stored
C24_Witness ==
  /\ req[1].settings.apiKey # <<>>
  /\ req[1].upstream.apiKey = req[1].settings.apiKey
  /\ req[1].upstream.baseUrl = EnvSettings.baseUrl
  /\ Has(req[1].log, "docSaved")
  /\ Len(chatMessages) = 2

\* every assistant message of the history h has the user message of its
\* turn somewhere before it
UserFirst(h) ==
  \A i \in 1..Len(h) :
    h[i].role = "assistant"
      => \E j \in 1..(i - 1) :
           /\ h[j].role = "user"
           /\ h[j].documentId = h[i].documentId
           /\ \E t \in Turns : h[j].content = turn[t].msg /\ turn[t].docId = h[i].documentId

\* C25: the local chat history only grows, and by one message at its end at
\* a time: no step removes, moves or changes a message that is in it; and
\* the assistant message of a turn comes after the user message of the turn.
C25_HistoryAppendOnly ==
  [][/\ \/ messages' = messages
        \/ /\ Len(messages') = Len(messages) + 1
           /\ SubSeq(messages', 1, Len(messages)) = messages
     /\ UserFirst(messages')]_vars

\* a completed turn: its user message, then its assistant message
C25_Witness ==
  /\ Len(messages) = 2
  /\ messages[1].role = "user"
  /\ messages[2].role = "assistant"
  /\ messages[2].content # <<>>
  /\ turn[1].pc = "done"

\* C26: whenever the loading flag is false the live streaming text is empty:
\* however a turn ended, by its done frame, by an error, or by the stream
\* closing with no done frame, no assistant text that is not in the history
\* is left on display.
C26_IdleShowsNoStream ==
  ~isAiLoading => streamingContent = <<>> /\ ShownStreaming = {}

\* the contents of the assistant messages stored for the document of
\* request t, in order
StoredAssistant(t) ==
  SelectSeq(chatMessages,
            LAMBDA m : m.role = "assistant" /\ m.documentId = req[t].docId)

\* the assistant messages of the local history for the document of turn t
LocalAssistant(t) ==
  SelectSeq(messages,
            LAMBDA m : m.role = "assistant" /\ m.documentId = turn[t].docId)

\* C27: when the client has handled the done frame of a turn, the assistant
\* message in the local history and the assistant message the server stored
\* for the request have the same content, the text deltas in their order.
C27_LocalEqualsStored ==
  \A t \in Turns :
    Has(turn[t].seen, KeyDone)
      => /\ Len(LocalAssistant(t)) = 1
         /\ Len(StoredAssistant(t)) = 1
         /\ LocalAssistant(t)[1].content = StoredAssistant(t)[1].content
         /\ LocalAssistant(t)[1].content = req[t].fullResponse

\* a done frame handled after two text deltas, read in more than one piece
C27_Witness ==
  \E t \in Turns :
    /\ Has(turn[t].seen, KeyDone)
    /\ Cardinality(At(req[t].log, "delta")) = 2
    /\ Cardinality(At(turn[t].seen, KeyContent)) = 2
    /\ HasBlock(req[t].fullResponse)

\* C28: a turn that has set the loading flag clears it in the end, whatever
\* way the turn ends, when the server answers the request and ends the
\* response or the request fails.
C28_LoadingClears == isAiLoading ~> ~isAiLoading

\* a turn that set the flag and ended by an error frame, the flag cleared
C28_Witness ==
  /\ ~isAiLoading
  /\ UserMessageShown(1)
  /\ Has(turn[1].seen, KeyError)
  /\ Has(toasts, "Message failed")


\* the chat messages of a document, as stored rows in creation order
RowsOf(id) == SelectSeq(chatMessages, LAMBDA m : m.documentId = id)

\* request t takes the step that reads the history
ReadsHistory(t) == req[t].pc = "readHistory" /\ req'[t].pc = "openUpstream"

\* request t takes the step that makes the upstream call
CallsUpstream(t) == req[t].pc = "openUpstream" /\ req'[t].pc = "streaming"

\* h is the last messages of the document, at most HistoryLimit of them
MostRecent(h, id) ==
  LET rows == RowsOf(id)
  IN /\ Len(h) = IF Len(rows) < HistoryLimit THEN Len(rows) ELSE HistoryLimit
     /\ \A i \in 1..Len(h) :
          LET m == rows[Len(rows) - Len(h) + i]
          IN h[i] = [role |-> m.role, content |-> m.content]

\* the last element of the history is the user message of request t
EndsWithOwn(t) ==
  /\ req'[t].history # <<>>
  /\ req'[t].history[Len(req'[t].history)] =
       [role |-> "user", content |-> req[t].content]

\* nothing was stored for the document of request t after its user message
NothingStoredSince(t) ==
  \A j \in (req[t].savedAt + 1)..Len(chatMessages) :
    chatMessages[j].documentId # req[t].docId

\* C29 as stated: the history passed upstream is the system prompt and then
\* the at most 10 most recent messages of the document in creation order,
\* and its last element is always the user message of the current request
C29_HistoryEndsWithOwnMessage ==
  [][\A t \in Pair :
       /\ ReadsHistory(t) => MostRecent(req'[t].history, req[t].docId) /\ EndsWithOwn(t)
       /\ CallsUpstream(t) =>
            /\ Head(req'[t].upstreamMessages).role = "system"
            /\ Tail(req'[t].upstreamMessages) = req[t].history]_vars

\* C29 amended: the history passed upstream is the system prompt and then the
\* at most 10 most recent messages of the document in creation order; its
\* last element is the user message of the current request whenever no other
\* request stored a message for the same document after that user message
C29_HistoryOfDocument ==
  [][\A t \in Pair :
       /\ ReadsHistory(t) =>
            /\ MostRecent(req'[t].history, req[t].docId)
            /\ NothingStoredSince(t) => EndsWithOwn(t)
       /\ CallsUpstream(t) =>
            /\ Head(req'[t].upstreamMessages).role = "system"
            /\ Tail(req'[t].upstreamMessages) = req[t].history]_vars

\* a request called upstream with a history cut to the limit that ends with
\* its own message, after another request for the same document stored one
C29_Witness ==
  \E t \in Pair : \E u \in Pair \ {t} :
    /\ req[t].docId = req[u].docId
    /\ req[u].savedAt # 0 /\ req[u].savedAt < req[t].savedAt
    /\ Len(RowsOf(req[t].docId)) > HistoryLimit
    /\ Len(req[t].upstreamMessages) = HistoryLimit + 1
    /\ req[t].upstreamMessages[Len(req[t].upstreamMessages)] =
         [role |-> "user", content |-> req[t].content]

\* request t takes a step
StepOf(t) == req'[t] # req[t]

\* at most one message was appended, under document id
AppendsUnder(id) ==
  \/ chatMessages' = chatMessages
  \/ /\ Len(chatMessages') = Len(chatMessages) + 1
     /\ SubSeq(chatMessages', 1, Len(chatMessages)) = chatMessages
     /\ chatMessages'[Len(chatMessages')].documentId = id

\* C30: a chat request appends chat messages only under its own document id
\* and updates the content only of its own document
C30_OtherDocumentsUntouched ==
  [][\A t \in Pair :
       StepOf(t) =>
         /\ AppendsUnder(req'[t].docId)
         /\ Len(documents') = Len(documents)
         /\ \A d \in 1..Len(documents) :
              d # req'[t].docId => documents'[d] = documents[d]]_vars

\* two overlapping requests for different documents have both updated their
\* document and stored their messages, and the documents differ
C30_Witness ==
  /\ \A t \in Pair : req[t].docId \in 1..Len(documents)
  /\ req[1].docId # req[2].docId
  /\ Len(chatMessages) >= 2
  /\ \A t \in Pair : Precedes(req[t].log, "docSaved", "assistantSaved")
  /\ chatMessages[1].role = "user" /\ chatMessages[2].role = "user"
  /\ chatMessages[1].documentId # chatMessages[2].documentId
  /\ documents[req[1].docId].content # documents[req[2].docId].content

====
